---- MODULE Spec2Model ----
(***************************************************************************)
(* freqs (src/src/main.rs): byte-frequency analysis of one file.           *)
(*                                                                         *)
(* main() reads the target through a BufReader of capacity CHUNKSIZE,      *)
(* tallies every byte of every chunk into byte_occurences ([u32; 256]),    *)
(* renders one text line per byte value that occurred, and writes the      *)
(* lines to standard output or appends them to the -o file.                *)
(*                                                                         *)
(* Representation.                                                         *)
(*   - The content of the target is a sequence of runs <<b, n>>: n >= 1    *)
(*     consecutive bytes of value b.  A chunk is a slice of it, again a    *)
(*     sequence of runs.  Tallying a run <<b, n>> adds n to the counter of *)
(*     b, which is what n executions of `byte_occurences[b] += 1` do.      *)
(*   - A number that can pass 2^31 - 1 (a counter, an offset, the length   *)
(*     of a run of the file) is a pair <<hi, lo>> of 16-bit limbs, see     *)
(*     "Numbers" below; a chunk length is a plain integer.                 *)
(*   - byte_occurences is a sequence of 256 counters; the counter of byte  *)
(*     value b is byte_occurences[b + 1] (TLA+ sequences start at 1).      *)
(*   - Text is a sequence of Unicode code points (a Rust String is a       *)
(*     sequence of chars): "41 " is <<52, 49, 32>>.                        *)
(*     The sink holds bytes: the UTF-8 encoding of the text written to it. *)
(*   - One step is one iteration of the read loop, the rendering of the    *)
(*     table, or one iteration of the output loop.  A panic ends the run   *)
(*     in pc = "panic_overflow" or pc = "panic_stdout".                    *)
(***************************************************************************)
EXTENDS Naturals, Sequences, FiniteSets

VARIABLES
    source,           \* content of the target file, as runs <<byte, length>>
    short_reads,      \* whether a read of the target may return fewer bytes than asked
    io_faults,        \* whether a read or a write may fail in this run
    sink,             \* "stdout" (out_file = None) or "file" (out_file = Some(f))
    offset,           \* read position of the underlying file (bytes read from it)
    buffered,         \* bytes held in the BufReader's buffer and not consumed yet
    read_failed,      \* whether fill_buf has returned Err
    byte_occurences,  \* main.rs:77
    chunks_done,      \* main.rs:76
    last_chunk,       \* <<start, length>> of the chunk tallied by the latest iteration
    pc,               \* position of main
    lines,            \* main.rs:106
    next_line,        \* index in lines of the line the output loop writes next
    written,          \* the bytes the sink has accepted, in order
    logged            \* number of write errors printed by main.rs:163

vars == <<source, short_reads, io_faults, sink, offset, buffered, read_failed, byte_occurences,
          chunks_done, last_chunk, pc, lines, next_line, written, logged>>

-----------------------------------------------------------------------------
(* Numbers *)

\* TLC's integers stop at 2^31 - 1, below u32::MAX.  A counter, a file
\* offset or a length that can pass that limit is a pair <<hi, lo>> of two
\* limbs of 16 bits: the number hi * 2^16 + lo, with 0 <= lo < 2^16.  A u32
\* is such a pair with hi < 2^16.
LimbBase == 256 * 256

W(n) == <<n \div LimbBase, n % LimbBase>>

WAdd(a, b) ==
    LET lo == a[2] + b[2]
    IN  <<a[1] + b[1] + (lo \div LimbBase), lo % LimbBase>>

WLess(a, b) == a[1] < b[1] \/ (a[1] = b[1] /\ a[2] < b[2])

\* a - b, for a >= b
WSub(a, b) ==
    IF a[2] >= b[2] THEN <<a[1] - b[1], a[2] - b[2]>>
    ELSE <<a[1] - b[1] - 1, (a[2] + LimbBase) - b[2]>>

\* the pair as one integer, for a pair known to be small
Small(a) == a[1] * LimbBase + a[2]

\* min(a, n) for a pair a and an integer n
WMin(a, n) == IF WLess(a, W(n)) THEN Small(a) ELSE n

\* u32: a value past u32::MAX, and the value it wraps to
ExceedsU32(a) == a[1] >= LimbBase

WrapU32(a) == <<a[1] % LimbBase, a[2]>>

\* quotient and remainder of the division by ten
WDivTen(a) == <<a[1] \div 10, ((a[1] % 10) * LimbBase + a[2]) \div 10>>

WModTen(a) == ((a[1] % 10) * LimbBase + a[2]) % 10

-----------------------------------------------------------------------------
(* Program constants *)

\* main.rs:73
CHUNKSIZE == 1024 * 128

\* main.rs:77, the length of byte_occurences
NumByteValues == 256

(* Bounds of the model *)

\* longest enumerated file, and longest short read, in bytes
MaxLen == 3

\* longest proper part of a line's text that a failing write is taken to
\* leave in the sink
MaxPartial == 5

Bytes == 0 .. (NumByteValues - 1)

\* byte values the enumerated multi-byte files are made of: LF and 'A'
SampleBytes == {10, 65}

-----------------------------------------------------------------------------
(* The target file *)

\* length in bytes (a pair)
RECURSIVE FileLen(_)
FileLen(runs) ==
    IF runs = <<>> THEN W(0) ELSE WAdd(runs[1][2], FileLen(Tail(runs)))

\* the slice of n bytes of `runs` that starts `start` bytes in: what fill_buf
\* hands to the loop as `chunk`.  Its runs are at most n long, so their
\* lengths are plain integers.
RECURSIVE ChunkAt(_, _, _)
ChunkAt(runs, start, n) ==
    IF n = 0 \/ runs = <<>> THEN <<>>
    ELSE LET b == runs[1][1]
             k == runs[1][2]
         IN  IF ~WLess(start, k) THEN ChunkAt(Tail(runs), WSub(start, k), n)
             ELSE LET take == WMin(WSub(k, start), n)
                  IN  <<<<b, take>>>> \o ChunkAt(Tail(runs), W(0), n - take)

\* files of at most MaxLen bytes over SampleBytes, one run per byte
SmallFiles ==
    UNION {[1 .. n -> {<<b, W(1)>> : b \in SampleBytes}] : n \in 0 .. MaxLen}

\* the file of spec section 8: 0x00 0x41 0x41 0x0A
ExampleFiles == {<<<<0, W(1)>>, <<65, W(2)>>, <<10, W(1)>>>>}

\* one file per byte value
SingleByteFiles == {<<<<b, W(1)>>>> : b \in Bytes}

\* the 300,000 byte file of spec section 8
LargeFile == <<<<97, W(300000)>>>>

\* a file of 2^32 bytes of one value
HugeFile == <<<<97, <<LimbBase, 0>>>>>>

-----------------------------------------------------------------------------
(* The read loop, main.rs:80-101 *)

\* main.rs:77  [0u32; 256]
ZeroCounts == [i \in 1 .. NumByteValues |-> W(0)]

\* u32::MAX
U32Max == <<LimbBase - 1, LimbBase - 1>>

\* main.rs:85, for every byte of the chunk: byte_occurences[*byte] += 1 on u32.
\* `overflow` tells whether some increment passed u32::MAX; `counts` holds
\* the values after the whole chunk when increments wrap; `at_panic` holds
\* the values at the first increment that passes u32::MAX, where a build
\* with overflow checks panics: every earlier byte of the chunk is tallied
\* and the counter that cannot be incremented stands at u32::MAX.
RECURSIVE Tally(_, _)
Tally(counts, chunk) ==
    IF chunk = <<>> THEN [counts |-> counts, overflow |-> FALSE, at_panic |-> counts]
    ELSE LET b == chunk[1][1]
             sum == WAdd(counts[b + 1], W(chunk[1][2]))
             rest == Tally([counts EXCEPT ![b + 1] = WrapU32(sum)], Tail(chunk))
         IN  [counts |-> rest.counts,
              overflow |-> rest.overflow \/ ExceedsU32(sum),
              at_panic |-> IF ExceedsU32(sum)
                             THEN [counts EXCEPT ![b + 1] = U32Max]
                             ELSE rest.at_panic]

\* the lengths one read of the underlying file can return when `remaining`
\* bytes are left and the buffer has room for CHUNKSIZE: as much as there is,
\* or (short_reads) less
ReadLens(remaining) ==
    {n \in {WMin(remaining, CHUNKSIZE)} \cup (IF short_reads THEN 1 .. MaxLen ELSE {}) :
        n >= 1 /\ ~WLess(remaining, W(n))}

\* the outcomes of a write to standard output: accepted (TRUE) or rejected
StdoutOutcomes == IF io_faults THEN BOOLEAN ELSE {TRUE}

\* BufReader::fill_buf: the buffer's unconsumed bytes when there are some,
\* else the result of one read of the underlying file
FillLens ==
    IF buffered > 0 THEN {buffered} ELSE ReadLens(WSub(FileLen(source), offset))

\* variants of ConsumeAmount: consume one byte less than the chunk, and
\* consume nothing
ConsumeShort(length_of_chunk) == length_of_chunk - 1

ConsumeNothing(length_of_chunk) == 0

\* main.rs:99  reader.consume(length_of_chunk)
ConsumeAmount(length_of_chunk) == length_of_chunk

\* BufReader::consume(amt) on a buffer holding `held` unconsumed bytes
AfterConsume(held, amt) == IF amt >= held THEN 0 ELSE held - amt

\* One iteration that gets a non-empty chunk: main.rs:82-90 tally, 92-99
\* progress and consume.  An overflowing `+= 1` panics in a build with
\* overflow checks and wraps in one without; print! panics when standard
\* output rejects the write.  A panic in the tally happens after fill_buf
\* has read the chunk into the buffer and before anything is consumed.
ReadChunk ==
    /\ pc = "loop"
    /\ \E n \in FillLens, overflow_checks \in BOOLEAN, stdout_ok \in StdoutOutcomes :
          LET held == IF buffered > 0 THEN buffered ELSE n
              offset1 == IF buffered > 0 THEN offset ELSE WAdd(offset, W(n))
              start == WSub(offset1, W(held))
              t == Tally(byte_occurences, ChunkAt(source, start, n))
              done1 == WAdd(chunks_done, W(1))
          IN  IF t.overflow /\ overflow_checks
                THEN /\ pc' = "panic_overflow"
                     /\ offset' = offset1
                     /\ buffered' = held
                     /\ byte_occurences' = t.at_panic
                     /\ last_chunk' = <<start, n>>
                     /\ UNCHANGED chunks_done
              ELSE IF ExceedsU32(done1) /\ overflow_checks
                THEN /\ pc' = "panic_overflow"
                     /\ offset' = offset1
                     /\ buffered' = held
                     /\ byte_occurences' = t.counts
                     /\ last_chunk' = <<start, n>>
                     /\ UNCHANGED chunks_done
              ELSE /\ offset' = offset1
                   /\ byte_occurences' = t.counts
                   /\ chunks_done' = WrapU32(done1)
                   /\ last_chunk' = <<start, n>>
                   /\ IF stdout_ok
                        THEN /\ buffered' = AfterConsume(held, ConsumeAmount(n))
                             /\ pc' = "loop"
                        ELSE /\ buffered' = held
                             /\ pc' = "panic_stdout"
    /\ UNCHANGED <<source, short_reads, io_faults, sink, read_failed, lines,
                   next_line, written, logged>>

\* The iteration whose fill_buf returns Ok(&[]): the file is exhausted.
\* length_of_chunk = 0, break, then println!("\ndone!") at main.rs:103.
ReadEof ==
    /\ pc = "loop"
    /\ buffered = 0
    /\ offset = FileLen(source)
    /\ \E stdout_ok \in StdoutOutcomes :
          pc' = IF stdout_ok THEN "render" ELSE "panic_stdout"
    /\ UNCHANGED <<source, short_reads, io_faults, sink, offset, buffered, read_failed,
                   byte_occurences, chunks_done, last_chunk, lines, next_line,
                   written, logged>>

\* The iteration whose fill_buf returns Err: main.rs:89 `else { 0 }`, so
\* length_of_chunk = 0 and main.rs:92 breaks exactly as at end of file.
ReadErr ==
    /\ pc = "loop"
    /\ io_faults
    /\ buffered = 0
    /\ read_failed' = TRUE
    /\ \E stdout_ok \in StdoutOutcomes :
          pc' = IF stdout_ok THEN "render" ELSE "panic_stdout"
    /\ UNCHANGED <<source, short_reads, io_faults, sink, offset, buffered,
                   byte_occurences, chunks_done, last_chunk, lines, next_line,
                   written, logged>>

-----------------------------------------------------------------------------
(* The table, main.rs:106-158 *)

\* code points: ' ' is 32, ':' is 58, '0' is 48, 'a' is 97
HexDigit(d) == IF d < 10 THEN 48 + d ELSE 97 + (d - 10)

\* variant of LowerHex: always two digits, as "{:02x}" would print
TwoDigitHex(n) == <<HexDigit(n \div 16), HexDigit(n % 16)>>

\* format!("{:x}", byte as u8): lowercase, no prefix, no leading zeros
RECURSIVE LowerHex(_)
LowerHex(n) ==
    IF n < 16 THEN <<HexDigit(n)>>
    ELSE LowerHex(n \div 16) \o <<HexDigit(n % 16)>>

\* "{}" of an unsigned integer (a pair)
RECURSIVE Decimal(_)
Decimal(n) ==
    IF n[1] = 0 /\ n[2] < 10 THEN <<48 + n[2]>>
    ELSE Decimal(WDivTen(n)) \o <<48 + WModTen(n)>>

\* "{: <3}"-style padding: left-aligned, filled with spaces up to `width`,
\* never truncated
RECURSIVE PadRight(_, _)
PadRight(s, width) ==
    IF Len(s) >= width THEN s ELSE PadRight(s \o <<32>>, width)

\* variant of NamedBytes: only the C0 control codes are named
NamedBytesC0Only == 0 .. 31

\* the byte values the match of main.rs:113-155 names
NamedBytes == (0 .. 32) \cup {127, 160, 173}

\* the arms main.rs:117-152
Name(b) ==
    CASE b = 0 -> <<60, 78, 85, 76, 76, 62>>                 \* 0x00 => <NULL>
      [] b = 1 -> <<60, 83, 79, 72, 62>>                     \* 0x01 => <SOH>
      [] b = 2 -> <<60, 83, 84, 88, 62>>                     \* 0x02 => <STX>
      [] b = 3 -> <<60, 69, 84, 88, 62>>                     \* 0x03 => <ETX>
      [] b = 4 -> <<60, 69, 79, 84, 62>>                     \* 0x04 => <EOT>
      [] b = 5 -> <<60, 69, 78, 81, 62>>                     \* 0x05 => <ENQ>
      [] b = 6 -> <<60, 65, 67, 75, 62>>                     \* 0x06 => <ACK>
      [] b = 7 -> <<60, 66, 69, 76>>                         \* 0x07 => <BEL
      [] b = 8 -> <<60, 66, 83, 62>>                         \* 0x08 => <BS>
      [] b = 9 -> <<60, 84, 65, 66, 62>>                     \* 0x09 => <TAB>
      [] b = 10 -> <<92, 110>>                               \* 0x0a => \n
      [] b = 11 -> <<60, 86, 84, 62>>                        \* 0x0b => <VT>
      [] b = 12 -> <<60, 70, 70, 62>>                        \* 0x0c => <FF>
      [] b = 13 -> <<92, 114>>                               \* 0x0d => \r
      [] b = 14 -> <<60, 83, 79, 62>>                        \* 0x0e => <SO>
      [] b = 15 -> <<60, 83, 73, 62>>                        \* 0x0f => <SI>
      [] b = 16 -> <<60, 68, 76, 69, 62>>                    \* 0x10 => <DLE>
      [] b = 17 -> <<60, 68, 67, 49, 62>>                    \* 0x11 => <DC1>
      [] b = 18 -> <<60, 68, 67, 50, 62>>                    \* 0x12 => <DC2>
      [] b = 19 -> <<60, 68, 67, 51, 62>>                    \* 0x13 => <DC3>
      [] b = 20 -> <<60, 68, 67, 52, 62>>                    \* 0x14 => <DC4>
      [] b = 21 -> <<60, 78, 65, 75, 62>>                    \* 0x15 => <NAK>
      [] b = 22 -> <<60, 83, 89, 78, 62>>                    \* 0x16 => <SYN>
      [] b = 23 -> <<60, 69, 84, 66, 62>>                    \* 0x17 => <ETB>
      [] b = 24 -> <<60, 69, 77, 62>>                        \* 0x18 => <EM>
      [] b = 25 -> <<60, 83, 85, 66, 62>>                    \* 0x19 => <SUB>
      [] b = 26 -> <<60, 83, 85, 66, 62>>                    \* 0x1a => <SUB>
      [] b = 27 -> <<60, 69, 83, 67, 62>>                    \* 0x1b => <ESC>
      [] b = 28 -> <<60, 70, 83, 62>>                        \* 0x1c => <FS>
      [] b = 29 -> <<60, 71, 83, 62>>                        \* 0x1d => <GS>
      [] b = 30 -> <<60, 82, 83, 62>>                        \* 0x1e => <RS>
      [] b = 31 -> <<60, 85, 83, 62>>                        \* 0x1f => <US>
      [] b = 32 -> <<60, 115, 112, 97, 99, 101, 62>>         \* 0x20 => <space>
      [] b = 127 -> <<60, 68, 69, 76, 62>>                   \* 0x7f => <DEL>
      [] b = 160 -> <<60, 110, 111, 110, 32, 98, 114, 101, 97, 107, 32, 115, 112, 97, 99, 101, 62>> \* 0xa0 => <non break space>
      [] b = 173 -> <<60, 115, 111, 102, 116, 32, 104, 121, 112, 104, 101, 110, 62>> \* 0xad => <soft hyphen>

\* main.rs:113-155: a named byte gets its name, any other byte `b as char`
Label(b) == IF b \in NamedBytes THEN Name(b) ELSE <<b>>

\* main.rs:109-156  format!("  {0: <3}: {1}: {2}", hex, byte_count, label)
FormatLine(byte, byte_count) ==
    <<32, 32>> \o PadRight(LowerHex(byte), 3) \o <<58, 32>>
        \o Decimal(byte_count) \o <<58, 32>> \o Label(byte)

\* variant of HasLine: a line for every byte value
HasLineAlways(byte_count) == TRUE

\* main.rs:108: only a byte value that occurred gets a line
HasLine(byte_count) == byte_count # W(0)

\* main.rs:107  byte_occurences.iter().enumerate(): the byte values 0 .. 255
\* in ascending order
ByteOrder == [i \in 1 .. NumByteValues |-> i - 1]

\* main.rs:107-158: one line per byte value that passes main.rs:108, in
\* the order of the enumeration
TableLines(counts) ==
    LET present == SelectSeq(ByteOrder, LAMBDA b : HasLine(counts[b + 1]))
    IN  [i \in 1 .. Len(present) |-> FormatLine(present[i], counts[present[i] + 1])]

\* main.rs:106-158: vec![String::from("")] followed by the table lines
RenderLines(counts) == <<<<>>>> \o TableLines(counts)

Render ==
    /\ pc = "render"
    /\ lines' = RenderLines(byte_occurences)
    /\ next_line' = 1
    /\ pc' = "write"
    /\ UNCHANGED <<source, short_reads, io_faults, sink, offset, buffered, read_failed,
                   byte_occurences, chunks_done, last_chunk, written, logged>>

-----------------------------------------------------------------------------
(* The output, main.rs:160-165 *)

\* the UTF-8 encoding of a char of code point below 256: a String is written
\* to the sink as its UTF-8 bytes
Utf8Char(c) == IF c < 128 THEN <<c>> ELSE <<192 + (c \div 64), 128 + (c % 64)>>

RECURSIVE Utf8(_)
Utf8(text) == IF text = <<>> THEN <<>> ELSE Utf8Char(text[1]) \o Utf8(Tail(text))

\* main.rs:163 writeln!(f, "{}", line), main.rs:165 println!("{}", line):
\* the bytes of the line, then the newline (10)
LineBytes(line) == Utf8(line) \o <<10>>

\* writeln! and println! hand the text and the newline to the sink one after
\* the other, and write_all repeats write until every byte is taken: a write
\* that fails has put k bytes of `bytes` in the sink before the error, with
\* k below Len(bytes).  The k explored: nothing or a part of the text, up
\* to MaxPartial bytes, and the whole text without its newline.
AcceptedBeforeError(bytes) ==
    {k \in 0 .. Len(bytes) - 1 : k <= MaxPartial \/ k = Len(bytes) - 1}

\* where main goes after the line at index i of `all`
AfterLine(i, all) == IF i >= Len(all) THEN "exit" ELSE "write"

\* variant of AfterFileWriteError: the first failed write ends the output loop
BreakOnFileWriteError(i, all, stdout_ok) ==
    IF stdout_ok THEN "exit" ELSE "panic_stdout"

\* main.rs:163: writeln! to the -o file returned Err(e): println!("{}", e),
\* then the for loop goes on.  println! panics when standard output rejects
\* the write.
AfterFileWriteError(i, all, stdout_ok) ==
    IF stdout_ok THEN AfterLine(i, all) ELSE "panic_stdout"

\* main.rs:162-164, one iteration: append the line to the -o file.  A write
\* that fails leaves in the file the bytes taken before the error.
WriteLineToFile ==
    /\ pc = "write"
    /\ sink = "file"
    /\ next_line <= Len(lines)
    /\ LET bytes == LineBytes(lines[next_line])
       IN  \/ /\ written' = written \o bytes
              /\ pc' = AfterLine(next_line, lines)
              /\ next_line' = next_line + 1
              /\ UNCHANGED logged
           \/ /\ io_faults
              /\ \E k \in AcceptedBeforeError(bytes), stdout_ok \in BOOLEAN :
                    /\ written' = written \o SubSeq(bytes, 1, k)
                    /\ pc' = AfterFileWriteError(next_line, lines, stdout_ok)
                    /\ next_line' = next_line + 1
                    /\ logged' = IF stdout_ok THEN logged + 1 ELSE logged
    /\ UNCHANGED <<source, short_reads, io_faults, sink, offset, buffered, read_failed,
                   byte_occurences, chunks_done, last_chunk, lines>>

\* main.rs:165, one iteration: println!("{}", line), which panics when
\* standard output rejects the write, the bytes taken before the error
\* staying written
WriteLineToStdout ==
    /\ pc = "write"
    /\ sink = "stdout"
    /\ next_line <= Len(lines)
    /\ LET bytes == LineBytes(lines[next_line])
       IN  \/ /\ written' = written \o bytes
              /\ pc' = AfterLine(next_line, lines)
              /\ next_line' = next_line + 1
           \/ /\ io_faults
              /\ \E k \in AcceptedBeforeError(bytes) :
                    /\ written' = written \o SubSeq(bytes, 1, k)
                    /\ pc' = "panic_stdout"
                    /\ UNCHANGED next_line
    /\ UNCHANGED <<source, short_reads, io_faults, sink, offset, buffered, read_failed,
                   byte_occurences, chunks_done, last_chunk, lines, logged>>

-----------------------------------------------------------------------------
(* Specifications *)

\* main.rs:57-77: the state on entry to the read loop
Start(files, short, faults) ==
    /\ source \in files
    /\ short_reads = short
    /\ io_faults = faults
    /\ sink \in {"stdout", "file"}
    /\ offset = W(0)
    /\ buffered = 0
    /\ read_failed = FALSE
    /\ byte_occurences = ZeroCounts
    /\ chunks_done = W(0)
    /\ last_chunk = <<W(0), 0>>
    /\ pc = "loop"
    /\ lines = <<>>
    /\ next_line = 1
    /\ written = <<>>
    /\ logged = 0

\* short files, read in every possible way
Init == Start(SmallFiles \cup SingleByteFiles \cup ExampleFiles, TRUE, TRUE)

\* long files, every read filling the buffer: the 300,000 byte file on a
\* run where reads and writes may fail, the 2^32 byte file on a run where
\* none does
InitLarge ==
    \/ Start({LargeFile}, FALSE, TRUE)
    \/ Start({HugeFile}, FALSE, FALSE)

Next ==
    \/ ReadChunk
    \/ ReadEof
    \/ ReadErr
    \/ Render
    \/ WriteLineToFile
    \/ WriteLineToStdout

Spec == Init /\ [][Next]_vars

SpecLarge == InitLarge /\ [][Next]_vars

\* main.rs:80-101, one iteration of the loop, whatever fill_buf returns
LoopStep == ReadErr \/ ReadEof \/ ReadChunk

\* main is the only thread and every call of the loop body returns: an
\* iteration that can run does run
FairSpec == Spec /\ WF_vars(LoopStep)

-----------------------------------------------------------------------------
(* What the properties below measure *)

AfterLoop == {"render", "write", "exit"}

\* for every byte value, the number of bytes of that value among the first
\* `upto` bytes of `runs`: 256 numbers (pairs, not wrapped), the number of
\* byte value b at index b + 1
RECURSIVE OccurrencesIn(_, _)
OccurrencesIn(runs, upto) ==
    IF runs = <<>> \/ upto = W(0) THEN [i \in 1 .. NumByteValues |-> W(0)]
    ELSE LET k == runs[1][2]
             take == IF WLess(upto, k) THEN upto ELSE k
             rest == OccurrencesIn(Tail(runs), WSub(upto, take))
         IN  [rest EXCEPT ![runs[1][1] + 1] = WAdd(take, @)]

Occurrences(runs) == OccurrencesIn(runs, FileLen(runs))

\* sum of the counters of indexes lo .. hi (a pair, not wrapped)
RECURSIVE SumRange(_, _, _)
SumRange(counts, lo, hi) ==
    IF lo = hi THEN counts[lo]
    ELSE LET mid == (lo + hi) \div 2
         IN  WAdd(SumRange(counts, lo, mid), SumRange(counts, mid + 1, hi))

Total(counts) == SumRange(counts, 1, NumByteValues)

\* bytes consumed from the source: the BufReader's logical position
Consumed == WSub(offset, W(buffered))

\* end of the chunk the latest iteration tallied
TalliedUpTo == WAdd(last_chunk[1], W(last_chunk[2]))

(* Reading a rendered line back, field by field *)

IsDecimalDigit(c) == c >= 48 /\ c <= 57

IsLowerHexDigit(c) == IsDecimalDigit(c) \/ (c >= 97 /\ c <= 102)

HexDigitValue(c) == IF IsDecimalDigit(c) THEN c - 48 ELSE c - 87

\* columns 3-5, and the digits in them
HexField(line) == SubSeq(line, 3, 5)

HexDigitsOf(line) == SelectSeq(HexField(line), LAMBDA c : c # 32)

LineByte(line) ==
    LET d == HexDigitsOf(line)
    IN  IF Len(d) = 1 THEN HexDigitValue(d[1])
        ELSE 16 * HexDigitValue(d[1]) + HexDigitValue(d[2])

\* the run of decimal digits that starts in column 8
CountDigits(line) ==
    LET stop == CHOOSE j \in 8 .. Len(line) + 1 :
                    /\ j = Len(line) + 1 \/ ~IsDecimalDigit(line[j])
                    /\ \A k \in 8 .. j - 1 : IsDecimalDigit(line[k])
    IN  SubSeq(line, 8, stop - 1)

RECURSIVE DecimalValue(_)
DecimalValue(d) ==
    IF d = <<>> THEN W(0)
    ELSE LET front == DecimalValue(SubSeq(d, 1, Len(d) - 1))
             lo == front[2] * 10 + (d[Len(d)] - 48)
         IN  <<front[1] * 10 + (lo \div LimbBase), lo % LimbBase>>

LineCount(line) == DecimalValue(CountDigits(line))

LabelStart(line) == 8 + Len(CountDigits(line)) + 2

LineLabel(line) == SubSeq(line, LabelStart(line), Len(line))

\* "  {hex:<3}: {count}: {label}" with hex the lowercase hexadecimal digits of
\* a byte value, without prefix and without leading zero, followed by spaces
\* up to column 5
WellFormed(line) ==
    /\ Len(line) >= 11
    /\ line[1] = 32 /\ line[2] = 32
    /\ LET d == HexDigitsOf(line)
       IN  /\ Len(d) \in {1, 2}
           /\ \A i \in 1 .. Len(d) : IsLowerHexDigit(d[i])
           /\ Len(d) = 2 => d[1] # 48
           /\ HexField(line) = d \o [i \in 1 .. 3 - Len(d) |-> 32]
    /\ line[6] = 58 /\ line[7] = 32
    /\ Len(CountDigits(line)) >= 1
    /\ Len(line) >= LabelStart(line)
    /\ line[LabelStart(line) - 2] = 58 /\ line[LabelStart(line) - 1] = 32

TableRows == 2 .. Len(lines)

-----------------------------------------------------------------------------
(* Properties *)

\* C1: on a run without read error, the sum of the 256 counters equals the
\* number of bytes consumed from the source at every iteration boundary, and
\* the byte length of the source once the loop has ended.
SumEqualsBytesRead ==
    ~read_failed =>
        /\ pc = "loop" => Total(byte_occurences) = Consumed
        /\ pc \in AfterLoop => Total(byte_occurences) = FileLen(source)

\* C2: when the source has been read to its end without error, the counter
\* of every byte value equals the number of occurrences of that value in the
\* source, however the reads split it.
FinalTableIsExact ==
    (pc \in AfterLoop /\ ~read_failed) =>
        LET occurrences == Occurrences(source)
        IN  \A b \in Bytes : byte_occurences[b + 1] = occurrences[b + 1]

\* C3: once a read of the source has failed, the run is over: the table is
\* not rendered and no line reaches the sink.
ReadFailureIsFatal ==
    read_failed => (lines = <<>> /\ written = <<>>)

\* C4: the rendered sequence is one empty line followed by exactly one line
\* per byte value whose counter is not zero, in strictly ascending order of
\* byte value, and no line for a byte value whose counter is zero.
TableHasOneLinePerByteSeen ==
    pc \in {"write", "exit"} =>
        /\ Len(lines) >= 1 /\ lines[1] = <<>>
        /\ Len(lines) = 1 + Cardinality({b \in Bytes : byte_occurences[b + 1] # W(0)})
        /\ Len(lines) <= 1 + NumByteValues
        /\ \A i \in TableRows :
              /\ LineByte(lines[i]) \in Bytes
              /\ byte_occurences[LineByte(lines[i]) + 1] # W(0)
        /\ \A i \in TableRows, j \in TableRows :
              i < j => LineByte(lines[i]) < LineByte(lines[j])
        /\ FileLen(source) = W(0) => lines = <<<<>>>>

\* a file whose bytes are not in ascending order has been rendered, with a
\* byte value of the alphabet absent from it
OneLinePerByteSeenWitness ==
    /\ pc = "exit"
    /\ ~read_failed
    /\ source = <<<<65, W(1)>>, <<10, W(1)>>, <<65, W(1)>>>>
    /\ Len(lines) = 3

\* C5 as stated: every line has the form "  {hex:<3}: {count}: {label}" and
\* the file 0x00 0x41 0x41 0x0A renders three lines, of hex fields `00`, `0a`
\* and `41` (in the order of the table), counts 1, 1, 2 and labels <NULL>,
\* \n, A.
ExampleRendersTwoDigitHex ==
    (source \in ExampleFiles /\ pc \in {"write", "exit"} /\ ~read_failed) =>
        lines = << <<>>,
                   <<32, 32, 48, 48, 32, 58, 32, 49, 58, 32, 60, 78, 85, 76, 76, 62>>,
                   <<32, 32, 48, 97, 32, 58, 32, 49, 58, 32, 92, 110>>,
                   <<32, 32, 52, 49, 32, 58, 32, 50, 58, 32, 65>> >>

\* C5 as amended: every line has the form "  {hex:<3}: {count}: {label}",
\* hex being the lowercase hexadecimal of the byte value without prefix and
\* without leading zero, left-aligned in width 3, and count the decimal value
\* of its counter; the file 0x00 0x41 0x41 0x0A renders three lines, of hex
\* fields `0`, `a` and `41` (in the order of the table), counts 1, 1, 2 and
\* labels <NULL>, \n, A.
LinesHaveTheFormat ==
    pc \in {"write", "exit"} =>
        /\ \A i \in TableRows :
              /\ WellFormed(lines[i])
              /\ LineCount(lines[i]) = byte_occurences[LineByte(lines[i]) + 1]
        /\ (source \in ExampleFiles /\ ~read_failed) =>
              lines = << <<>>,
                         <<32, 32, 48, 32, 32, 58, 32, 49, 58, 32, 60, 78, 85, 76, 76, 62>>,
                         <<32, 32, 97, 32, 32, 58, 32, 49, 58, 32, 92, 110>>,
                         <<32, 32, 52, 49, 32, 58, 32, 50, 58, 32, 65>> >>

\* the example file has been read in more than one chunk and rendered
ExampleRenderedWitness ==
    /\ source \in ExampleFiles
    /\ pc = "exit"
    /\ ~read_failed
    /\ chunks_done = W(2)
    /\ Len(lines) = 4

\* C6: no increment of a counter passes the counter's width: the program
\* never aborts on one, and every counter holds the number of bytes of its
\* value tallied so far.
CountersNeverOverflow ==
    /\ pc # "panic_overflow"
    /\ byte_occurences = OccurrencesIn(source, TalliedUpTo)

\* C7: the label of a line depends only on its byte value: the name of the
\* match arm for 0x00-0x1F, 0x20, 0x7F, 0xA0 and 0xAD, never the literal
\* character; for every other byte value the single character of that code.
LabelFollowsByteValue ==
    pc \in {"write", "exit"} =>
        \A i \in TableRows :
            LET v == LineByte(lines[i])
                label == LineLabel(lines[i])
            IN  IF v \in (0 .. 31) \cup {32, 127, 160, 173}
                  THEN label = Name(v) /\ label # <<v>> /\ Len(label) >= 2
                  ELSE label = <<v>>

\* a table with a named byte and a byte printed as itself has been rendered
NamedAndLiteralWitness ==
    /\ pc = "exit"
    /\ \E i \in TableRows, j \in TableRows :
          /\ LineByte(lines[i]) = 10 /\ LineLabel(lines[i]) = <<92, 110>>
          /\ LineByte(lines[j]) = 65 /\ LineLabel(lines[j]) = <<65>>

\* C8 as stated: a failed write of a line never ends the run, whatever the
\* sink: the output loop goes on to the next line or ends normally.
WriteFailureNeverAborts ==
    [][pc = "write" => pc' \in {"write", "exit"}]_vars

\* whether `stream` is what the attempts on the lines first .. next_line - 1
\* leave in the sink when exactly `failures` of them failed: a line whose
\* write succeeded is there whole, with its newline; a line whose write
\* failed is there as a proper part of its bytes, possibly none, never with
\* its newline
RECURSIVE Explains(_, _, _)
Explains(stream, first, failures) ==
    IF first >= next_line THEN stream = <<>> /\ failures = 0
    ELSE LET bytes == LineBytes(lines[first])
             Starts(k) == k <= Len(stream) /\ SubSeq(stream, 1, k) = SubSeq(bytes, 1, k)
             After(k) == SubSeq(stream, k + 1, Len(stream))
         IN  \/ /\ Starts(Len(bytes))
                /\ Explains(After(Len(bytes)), first + 1, failures)
             \/ /\ failures > 0
                /\ \E k \in 0 .. Len(bytes) - 1 :
                      Starts(k) /\ Explains(After(k), first + 1, failures - 1)

\* C8 as amended: with the -o file as sink, every line is attempted in
\* order, each one either accepted whole by the file or, its write having
\* failed, logged on standard output with at most a part of the line, and
\* never its newline, left in the file; the loop ends only after the last
\* line, and the run aborts in the output loop only when a write to standard
\* output fails.  With standard output as sink nothing is logged: what has
\* been written is the lines so far, whole.
FileSinkIsBestEffort ==
    pc \in {"write", "exit"} =>
        /\ next_line <= Len(lines) + 1
        /\ pc = "exit" <=> next_line = Len(lines) + 1
        /\ logged <= next_line - 1
        /\ sink = "file" => Explains(written, 1, logged)
        /\ sink = "stdout" => (logged = 0 /\ Explains(written, 1, 0))

\* with the -o file as sink, the write of the second line has failed after
\* its text, and the third line was written behind it
FailedThenWrittenWitness ==
    /\ sink = "file"
    /\ pc = "exit"
    /\ Len(lines) = 3
    /\ logged = 1
    /\ written = <<10>> \o Utf8(lines[2]) \o LineBytes(lines[3])

\* C9: every iteration tallies a non-empty chunk that starts where the chunk
\* of the previous iteration ended, and consumes exactly that chunk before
\* the next read: at the next read the buffer is empty and the reader stands
\* at the end of the tallied chunk.
IterationsAreSequential ==
    [][last_chunk' # last_chunk =>
          /\ last_chunk'[1] = TalliedUpTo
          /\ last_chunk'[2] >= 1
          /\ pc' = "loop" => (buffered' = 0 /\ offset' = TalliedUpTo')]_vars

\* the loop is at its third read, after two chunks
SecondChunkWitness ==
    /\ pc = "loop"
    /\ chunks_done = W(2)
    /\ last_chunk[1] # W(0)
    /\ WLess(offset, FileLen(source))

\* bytes of the source the reader has not consumed
Remaining == WSub(FileLen(source), Consumed)

\* C10: the read loop ends: every iteration that stays in the loop consumes
\* at least one byte, the read that returns no byte leaves the loop, and once
\* left the loop never reads or tallies again.
LoopTerminates ==
    /\ <>(pc # "loop")
    /\ [][(pc = "loop" /\ pc' = "loop") => WLess(Remaining', Remaining)]_vars
    /\ [][(pc = "loop" /\ Remaining = W(0) /\ buffered = 0) => pc' # "loop"]_vars
    /\ [][pc # "loop" =>
            /\ pc' # "loop"
            /\ UNCHANGED <<offset, buffered, byte_occurences, chunks_done, last_chunk>>]_vars

\* the loop has ended at end of file after three chunks
LoopEndedWitness ==
    /\ pc = "render"
    /\ ~read_failed
    /\ chunks_done = W(3)
    /\ Remaining = W(0)

====
